---- MODULE Spec2Model ----
(***************************************************************************)
(* A model of ByteHedge: the market-data fetch, the technical-indicator    *)
(* computation, the trend classifier, the fundamentals snapshot and the    *)
(* analyze_stock pipeline of src/.                                         *)
(*                                                                         *)
(* Floating-point numbers are modelled as records: a finite number is a    *)
(* fixed-point integer (the value times Scale), and not-a-number and the   *)
(* two infinities are values of their own, compared as IEEE-754 compares   *)
(* them.  Each entry point of the repository is exercised by its own       *)
(* specification (SpecTrend, SpecIndicators, ...); the variables of the    *)
(* other entry points stay at their idle values.                           *)
(***************************************************************************)
EXTENDS Integers, Sequences, FiniteSets

VARIABLES
    trendArgs,      \* the (price, ema20, ema50) passed to _determine_trend
    trendResult,    \* what the call returned ("none" before the call)
    frames,         \* the DataFrame objects alive, by object id
    results,        \* one record per finished indicator call, oldest first
    upstream,       \* what yf.download does for the symbol asked for
    fetched,        \* the outcome of the market-data fetch
    info,           \* the upstream info mapping of the ticker
    fundamentals,   \* the fundamentals snapshot returned
    pc,             \* analyze_stock: the statement to run next
    failed,         \* analyze_stock: the step whose exception was caught
    data_summary,   \* analyze_stock: the latest values handed to the analyst
    events,         \* analyze_stock: what the run did and printed, in order
    outcome,        \* analyze_stock: how the call ended for main()
    feeds,          \* get_market_trends: what yf.download does per symbol
    cursor,         \* get_market_trends: the position of the loop in all_symbols
    market_data,    \* get_market_trends: the rows appended so far
    trends,         \* get_market_trends: how the call ended
    rates_data,     \* get_rates_analysis: the rows appended so far
    rates           \* get_rates_analysis: how the call ended

trendVars == <<trendArgs, trendResult>>
indVars == <<frames, results>>
fetchVars == <<upstream, fetched>>
fundVars == <<info, fundamentals>>
analyzeVars == <<pc, failed, data_summary, events, outcome>>
ratesVars == <<rates_data, rates>>
marketVars == <<feeds, cursor, market_data, trends, ratesVars>>
vars == <<trendVars, indVars, fetchVars, fundVars, analyzeVars, marketVars>>

(***************************************************************************)
(* Bounds of the model.                                                    *)
(***************************************************************************)
\* price levels 90, 100, ... handed to the trend classifier
MaxLevel == 2
\* the longest bar series
MaxLen == 51
\* bar series are generated from the seeds 0..MaxSeed
MaxSeed == 3
\* fixed-point precision: a finite float x is the integer x * Scale, rounded down
Scale == 100
\* indicator calls made on one frame
MaxCalls == 2
\* an upstream info entry holds one of the numbers 1..MaxInfoValue
MaxInfoValue == 1

(***************************************************************************)
(* Constants of the program.                                               *)
(***************************************************************************)
\* ta.momentum.RSIIndicator and ta.volatility.AverageTrueRange: window=14
RsiWindow == 14
AtrWindow == 14
\* ta.trend.EMAIndicator(..., window=20) and (..., window=50)
EmaShort == 20
EmaLong == 50

(***************************************************************************)
(* Python floats.                                                          *)
(***************************************************************************)
Num(v) == [k |-> "num", v |-> v]
NaN == [k |-> "nan", v |-> 0]
PosInf == [k |-> "inf", v |-> 1]
NegInf == [k |-> "inf", v |-> -1]

IsFinite(a) == a.k = "num"
IsNaN(a) == a.k = "nan"

\* the position of a float among -inf < finite < +inf
Rank(a) == IF a.k = "inf" THEN a.v ELSE 0

\* Python's a > b on floats: False as soon as one side is not-a-number
Gt(a, b) ==
    /\ ~IsNaN(a)
    /\ ~IsNaN(b)
    /\ \/ Rank(a) > Rank(b)
       \/ Rank(a) = Rank(b) /\ IsFinite(a) /\ IsFinite(b) /\ a.v > b.v

\* Python's a < b on floats
Lt(a, b) == Gt(b, a)

(***************************************************************************)
(* Market._determine_trend (src/services/market.py).  The chained          *)
(* comparison price > ema20 > ema50 is (price > ema20) and (ema20 > ema50).*)
(***************************************************************************)
TrendLabels == {"Strong Uptrend", "Uptrend", "Strong Downtrend", "Downtrend"}

\* mutant: the second rule accepts equality
Market_determine_trend_ge(price, ema20, ema50) ==
    IF Gt(price, ema20) /\ Gt(ema20, ema50) THEN "Strong Uptrend"
    ELSE IF ~Lt(price, ema20) THEN "Uptrend"
    ELSE IF Lt(price, ema20) /\ Lt(ema20, ema50) THEN "Strong Downtrend"
    ELSE "Downtrend"

\* mutant: the third rule tests ema20 against ema50 only
Market_determine_trend_no_price_test(price, ema20, ema50) ==
    IF Gt(price, ema20) /\ Gt(ema20, ema50) THEN "Strong Uptrend"
    ELSE IF Gt(price, ema20) THEN "Uptrend"
    ELSE IF Lt(ema20, ema50) THEN "Strong Downtrend"
    ELSE "Downtrend"

Market_determine_trend(price, ema20, ema50) ==
    IF Gt(price, ema20) /\ Gt(ema20, ema50) THEN "Strong Uptrend"
    ELSE IF Gt(price, ema20) THEN "Uptrend"
    ELSE IF Lt(price, ema20) /\ Lt(ema20, ema50) THEN "Strong Downtrend"
    ELSE "Downtrend"

(***************************************************************************)
(* Bar series and DataFrames.  A DataFrame is its ordered column names and *)
(* the values of each column; price columns hold floats, Date and Volume   *)
(* hold integers.  Bar i of the series of seed s: seed 0 rises, seed 1     *)
(* falls, the other seeds oscillate.                                       *)
(***************************************************************************)
BarColumns == <<"Date", "Open", "High", "Low", "Close", "Volume">>
IndicatorColumns == <<"rsi", "ema_20", "ema_50", "volatility">>

CloseAt(i, s) ==
    CASE s = 0 -> 10 + i
      [] s = 1 -> 80 - i
      [] s = 2 -> IF i = 1 THEN 40 ELSE 20
      [] OTHER -> 15 + ((i * (s + 2)) % 7)

BarAt(i, s) ==
    [Date |-> i,
     Open |-> Num((CloseAt(i, s) - (i % 2)) * Scale),
     High |-> Num((CloseAt(i, s) + 1 + (i % 2)) * Scale),
     Low |-> Num((CloseAt(i, s) - 1 - (i % 3)) * Scale),
     Close |-> Num(CloseAt(i, s) * Scale),
     Volume |-> 1000 + i]

BarSeries(n, s) == [i \in 1..n |-> BarAt(i, s)]
BarSeriesSet == {BarSeries(n, s) : n \in 0..MaxLen, s \in 0..MaxSeed}

Range(q) == {q[i] : i \in 1..Len(q)}

\* the DataFrame of a bar series: the six columns, one row per bar
FrameOf(bars) ==
    [columns |-> BarColumns,
     col |-> [c \in Range(BarColumns) |-> [i \in 1..Len(bars) |-> bars[i][c]]]]

NRows(f) == Len(f.col["Close"])
HasColumn(f, c) == c \in Range(f.columns)

\* data[c] = values: a new column goes last, an existing one is overwritten in place
SetColumn(f, c, values) ==
    [columns |-> IF HasColumn(f, c) THEN f.columns ELSE Append(f.columns, c),
     col |-> [d \in (DOMAIN f.col) \cup {c} |-> IF d = c THEN values ELSE f.col[d]]]

(***************************************************************************)
(* The ta library, as the repository calls it.                             *)
(***************************************************************************)
Abs(x) == IF x < 0 THEN -x ELSE x
Max2(a, b) == IF a > b THEN a ELSE b
Max3(a, b, c) == Max2(a, Max2(b, c))

\* pandas ewm(adjust=False).mean() before min_periods: y[1] = x[1],
\* y[i] = alpha * x[i] + (1 - alpha) * y[i-1], with alpha = num / den
RECURSIVE EwmFrom(_, _, _, _)
EwmFrom(xs, num, den, ys) ==
    IF Len(ys) = Len(xs) THEN ys
    ELSE EwmFrom(xs, num, den,
             Append(ys, (num * xs[Len(ys) + 1] + (den - num) * ys[Len(ys)]) \div den))

Ewm(xs, num, den) ==
    IF Len(xs) = 0 THEN <<>> ELSE EwmFrom(xs, num, den, <<xs[1]>>)

\* mutant: the recurrence started from 0 instead of the first close
EmaIndicatorZeroSeed(close, window) ==
    LET xs == [i \in 1..Len(close) |-> close[i].v]
        y == IF Len(xs) = 0 THEN <<>>
             ELSE EwmFrom(xs, 2, window + 1, <<(2 * xs[1]) \div (window + 1)>>)
    IN  [i \in 1..Len(close) |-> IF i < window THEN NaN ELSE Num(y[i])]

\* ta.trend.EMAIndicator(close, window).ema_indicator():
\* close.ewm(span=window, min_periods=window, adjust=False).mean()
EmaIndicator(close, window) ==
    LET y == Ewm([i \in 1..Len(close) |-> close[i].v], 2, window + 1)
    IN  [i \in 1..Len(close) |-> IF i < window THEN NaN ELSE Num(y[i])]

\* ta.momentum.RSIIndicator(close).rsi(): the first difference counts as 0 both
\* ways; 100 where the average loss is 0, else 100 - 100 / (1 + up / down)
RsiIndicator(close) ==
    LET n == Len(close)
        diff == [i \in 1..n |-> IF i = 1 THEN 0 ELSE close[i].v - close[i - 1].v]
        up == Ewm([i \in 1..n |-> Max2(diff[i], 0)], 1, RsiWindow)
        dn == Ewm([i \in 1..n |-> Max2(-diff[i], 0)], 1, RsiWindow)
    IN  [i \in 1..n |->
            IF i < RsiWindow THEN NaN
            ELSE IF dn[i] = 0 THEN Num(100 * Scale)
            ELSE Num((100 * Scale * up[i]) \div (up[i] + dn[i]))]

\* AverageTrueRange._true_range: the first bar has no previous close
TrueRange(high, low, close) ==
    [i \in 1..Len(close) |->
        IF i = 1 THEN high[i].v - low[i].v
        ELSE Max3(high[i].v - low[i].v,
                  Abs(high[i].v - close[i - 1].v),
                  Abs(low[i].v - close[i - 1].v))]

RECURSIVE SumTo(_, _)
SumTo(xs, n) == IF n = 0 THEN 0 ELSE xs[n] + SumTo(xs, n - 1)

\* mutant: a series shorter than the window gets an all-zero column
AtrFailsNever(n) == FALSE

\* AverageTrueRange._run: atr = np.zeros(n); atr[window - 1] = ... is an
\* IndexError when the series has fewer than window rows
AtrFails(n) == n < AtrWindow

\* atr[i] = (atr[i - 1] * (window - 1) + true_range[i]) / window, past the window
RECURSIVE AtrFrom(_, _)
AtrFrom(tr, atr) ==
    IF Len(atr) >= Len(tr) THEN atr
    ELSE AtrFrom(tr,
             Append(atr, (atr[Len(atr)] * (AtrWindow - 1) + tr[Len(atr) + 1]) \div AtrWindow))

\* ta.volatility.AverageTrueRange(high, low, close).average_true_range(), for a
\* series that AtrFails does not reject: zeros before the window is full, then
\* the mean of the first window of true ranges, then the recurrence
AverageTrueRange(high, low, close) ==
    LET n == Len(close)
        tr == TrueRange(high, low, close)
        atr == IF n < AtrWindow THEN [i \in 1..n |-> 0]
               ELSE AtrFrom(tr, [i \in 1..AtrWindow |->
                                    IF i < AtrWindow THEN 0
                                    ELSE SumTo(tr, AtrWindow) \div AtrWindow])
    IN  [i \in 1..n |-> Num(atr[i])]

(***************************************************************************)
(* The indicator computation.  The three copies of it in the repository    *)
(* run the same four statements on the frame they are given: each          *)
(* statement assigns a column of that frame, and the fourth raises for a   *)
(* series the ATR rejects, after the first three have been assigned.       *)
(***************************************************************************)
NoFrame == [columns |-> <<>>, col |-> <<>>]

\* data['rsi'] = ta.momentum.RSIIndicator(data['Close']).rsi()
AssignRsi(f) == SetColumn(f, "rsi", RsiIndicator(f.col["Close"]))

\* mutant: the smoothed series is also written back over Close, which it was read from
AssignEma20OverClose(f) ==
    SetColumn(SetColumn(f, "Close", EmaIndicator(f.col["Close"], 2)),
              "ema_20", EmaIndicator(f.col["Close"], EmaShort))

\* data['ema_20'] = ta.trend.EMAIndicator(data['Close'], window=20).ema_indicator()
AssignEma20(f) == SetColumn(f, "ema_20", EmaIndicator(f.col["Close"], EmaShort))

\* data['ema_50'] = ta.trend.EMAIndicator(data['Close'], window=50).ema_indicator()
AssignEma50(f) == SetColumn(f, "ema_50", EmaIndicator(f.col["Close"], EmaLong))

\* data['volatility'] = ta.volatility.AverageTrueRange(data['High'], data['Low'],
\* data['Close']).average_true_range(): raises before the column is assigned
AssignVolatility(f) ==
    IF AtrFails(NRows(f))
    THEN [frame |-> f, error |-> "IndexError"]
    ELSE [frame |-> SetColumn(f, "volatility",
                        AverageTrueRange(f.col["High"], f.col["Low"], f.col["Close"])),
          error |-> "none"]

\* the four statements in their order, on the frame the one before has left
AssignIndicators(f) == AssignVolatility(AssignEma50(AssignEma20(AssignRsi(f))))

\* mutant: the indicators go into a copy of the frame, which is returned
AssetDataProcessor_calculate_quant_indicators_copy(heap, id) ==
    LET r == AssignIndicators(heap[id])
    IN  IF r.error = "none"
        THEN [frames |-> Append(heap, r.frame), error |-> "none", ret |-> Len(heap) + 1]
        ELSE [frames |-> heap, error |-> r.error, ret |-> 0]

\* AssetDataProcessor.calculate_quant_indicators(data): returns data itself;
\* an exception of the library propagates
AssetDataProcessor_calculate_quant_indicators(heap, id) ==
    LET r == AssignIndicators(heap[id])
    IN  [frames |-> [heap EXCEPT ![id] = r.frame],
         error |-> r.error,
         ret |-> IF r.error = "none" THEN id ELSE 0]

\* Asset.add_technical_indicators(data): the same statements
Asset_add_technical_indicators(heap, id) ==
    LET r == AssignIndicators(heap[id])
    IN  [frames |-> [heap EXCEPT ![id] = r.frame],
         error |-> r.error,
         ret |-> IF r.error = "none" THEN id ELSE 0]

\* main.calculate_quant_indicators(data): any exception is re-raised as ValueError
main_calculate_quant_indicators(heap, id) ==
    LET r == AssignIndicators(heap[id])
    IN  [frames |-> [heap EXCEPT ![id] = r.frame],
         error |-> IF r.error = "none" THEN "none" ELSE "ValueError",
         ret |-> IF r.error = "none" THEN id ELSE 0]

(***************************************************************************)
(* The market-data fetch.  yf.download either raises or returns the bars   *)
(* of the period, none when the symbol or the period has no data; the      *)
(* fetch turns the date index into the Date column and names the columns.  *)
(* What the download will give is kept as the length and the seed of the   *)
(* bar series.                                                             *)
(***************************************************************************)
Upstreams ==
    {[kind |-> "raise", n |-> 0, seed |-> 0]} \cup
    {[kind |-> "data", n |-> n, seed |-> sd] : n \in 0..MaxLen, sd \in 0..MaxSeed}

\* the bars yf.download returns
Download(up) == BarSeries(up.n, up.seed)

\* mutant: the emptiness test is missing
AssetDataProcessor_fetch_market_data_unchecked(up) ==
    IF up.kind = "raise" THEN [error |-> "DownloadError", frame |-> NoFrame]
    ELSE [error |-> "none", frame |-> FrameOf(Download(up))]

\* AssetDataProcessor.fetch_market_data
AssetDataProcessor_fetch_market_data(up) ==
    IF up.kind = "raise" THEN [error |-> "DownloadError", frame |-> NoFrame]
    ELSE IF Len(Download(up)) = 0 THEN [error |-> "ValueError", frame |-> NoFrame]
    ELSE [error |-> "none", frame |-> FrameOf(Download(up))]

\* Asset.get_market_data
Asset_get_market_data(up) ==
    IF up.kind = "raise" THEN [error |-> "DownloadError", frame |-> NoFrame]
    ELSE IF Len(Download(up)) = 0 THEN [error |-> "ValueError", frame |-> NoFrame]
    ELSE [error |-> "none", frame |-> FrameOf(Download(up))]

\* main.fetch_market_data: every exception, its own included, becomes a ValueError
main_fetch_market_data(up) ==
    IF up.kind = "raise" THEN [error |-> "ValueError", frame |-> NoFrame]
    ELSE IF Len(Download(up)) = 0 THEN [error |-> "ValueError", frame |-> NoFrame]
    ELSE [error |-> "none", frame |-> FrameOf(Download(up))]

(***************************************************************************)
(* The fundamentals snapshot.  A Python value is a number or a string.     *)
(***************************************************************************)
PyNum(n) == [type |-> "number", n |-> n, s |-> ""]
PyStr(s) == [type |-> "str", n |-> 0, s |-> s]

\* the entries of the dict literal, in its order: metric name, upstream key
FundamentalsFields ==
    << <<"Trailing P/E Ratio", "trailingPE">>,
       <<"Forward P/E Ratio", "forwardPE">>,
       <<"Market Cap", "marketCap">>,
       <<"Revenue", "totalRevenue">>,
       <<"Gross Profit", "grossProfits">>,
       <<"Net Income", "netIncomeToCommon">>,
       <<"EPS", "trailingEps">>,
       <<"Dividend Yield", "dividendYield">> >>

\* dict.get(key, default)
DictGet(d, key, default) == IF key \in DOMAIN d THEN d[key] ELSE default

\* the dict built from a sequence of (name, key) entries
FundamentalsDict(d, fields) ==
    [name \in {fields[i][1] : i \in 1..Len(fields)} |->
        LET i == CHOOSE j \in 1..Len(fields) : fields[j][1] = name
        IN  DictGet(d, fields[i][2], PyStr("N/A"))]

\* mutant: a metric missing upstream is left out of the snapshot
FundamentalsFetcher_fetch_fundamentals_present_only(d) ==
    FundamentalsDict(d, SelectSeq(FundamentalsFields, LAMBDA f : f[2] \in DOMAIN d))

\* FundamentalsFetcher.fetch_fundamentals
FundamentalsFetcher_fetch_fundamentals(d) == FundamentalsDict(d, FundamentalsFields)

\* Asset.get_fundamentals
Asset_get_fundamentals(d) == FundamentalsDict(d, FundamentalsFields)

(***************************************************************************)
(* main.analyze_stock: what it reads from the augmented frame.             *)
(***************************************************************************)
\* series.iloc[-1]
Last(q) == q[Len(q)]

NoSummary ==
    [built |-> FALSE, data_points |-> 0, latest_price |-> NaN, latest_rsi |-> NaN,
     latest_ema20 |-> NaN, latest_ema50 |-> NaN, latest_volatility |-> NaN]

\* the data_summary dict of analyze_stock
DataSummary(f) ==
    [built |-> TRUE,
     data_points |-> NRows(f),
     latest_price |-> Last(f.col["Close"]),
     latest_rsi |-> Last(f.col["rsi"]),
     latest_ema20 |-> Last(f.col["ema_20"]),
     latest_ema50 |-> Last(f.col["ema_50"]),
     latest_volatility |-> Last(f.col["volatility"])]

(***************************************************************************)
(* Market.get_market_trends.                                               *)
(***************************************************************************)
\* {**indices, **etfs}, in the order of the two dict literals
AllSymbols ==
    << <<"S&P 500", "^GSPC">>, <<"Nasdaq 100", "^NDX">>, <<"Dow Jones", "^DJI">>,
       <<"SPY", "SPY">>, <<"QQQ", "QQQ">>, <<"DIA", "DIA">>,
       <<"VIX", "^VIX">>, <<"TLT", "TLT">> >>

\* Asset.get_market_data_with_indicators: the fetch, then the indicators on the
\* frame fetched
Asset_get_market_data_with_indicators(up) ==
    LET got == Asset_get_market_data(up)
        r == Asset_add_technical_indicators(<<got.frame>>, 1)
    IN  IF got.error # "none" THEN [error |-> got.error, frame |-> NoFrame]
        ELSE IF r.error # "none" THEN [error |-> r.error, frame |-> NoFrame]
        ELSE [error |-> "none", frame |-> r.frames[r.ret]]

\* ((current_price - start_price) / start_price) * 100 on numpy floats: a zero
\* start price gives nan or an infinity, not an exception
PeriodReturn(current, start) ==
    IF start.v = 0
    THEN IF current.v = 0 THEN NaN ELSE IF current.v > 0 THEN PosInf ELSE NegInf
    ELSE Num(((current.v - start.v) * 100 * Scale) \div start.v)

\* mutant: above_20_ema compared with ema_50
MarketRowAbove20FromEma50(entry, f) ==
    LET current_price == Last(f.col["Close"])
        ema_20 == Last(f.col["ema_20"])
        ema_50 == Last(f.col["ema_50"])
    IN  [name |-> entry[1],
         symbol |-> entry[2],
         current_price |-> current_price,
         period_return |-> PeriodReturn(current_price, f.col["Close"][1]),
         rsi |-> Last(f.col["rsi"]),
         ema_20 |-> ema_20,
         ema_50 |-> ema_50,
         volatility |-> Last(f.col["volatility"]),
         volume |-> Last(f.col["Volume"]),
         above_20_ema |-> Gt(current_price, ema_50),
         above_50_ema |-> Gt(current_price, ema_50),
         trend |-> Market_determine_trend(current_price, ema_20, ema_50)]

\* the dict appended to market_data for one symbol
MarketRow(entry, f) ==
    LET current_price == Last(f.col["Close"])
        ema_20 == Last(f.col["ema_20"])
        ema_50 == Last(f.col["ema_50"])
    IN  [name |-> entry[1],
         symbol |-> entry[2],
         current_price |-> current_price,
         period_return |-> PeriodReturn(current_price, f.col["Close"][1]),
         rsi |-> Last(f.col["rsi"]),
         ema_20 |-> ema_20,
         ema_50 |-> ema_50,
         volatility |-> Last(f.col["volatility"]),
         volume |-> Last(f.col["Volume"]),
         above_20_ema |-> Gt(current_price, ema_20),
         above_50_ema |-> Gt(current_price, ema_50),
         trend |-> Market_determine_trend(current_price, ema_20, ema_50)]

\* the period returns of a set of rows, highest first, not-a-number last
RECURSIVE Descending(_)
Descending(S) ==
    IF S = {} THEN <<>>
    ELSE LET top == CHOOSE x \in S :
                        /\ \A y \in S : ~Gt(y, x)
                        /\ IsNaN(x) => \A y \in S : IsNaN(y)
         IN  <<top>> \o Descending(S \ {top})

\* pd.DataFrame(rows).set_index('name').sort_values('period_return',
\* ascending=False): the rows by descending return.  The sort is not stable,
\* so rows of equal return come in no fixed order: they are kept as one group.
SortedByReturn(rows) ==
    LET order == Descending({rows[i].period_return : i \in 1..Len(rows)})
    IN  [g \in 1..Len(order) |->
            {rows[i] : i \in {j \in 1..Len(rows) : rows[j].period_return = order[g]}}]

(***************************************************************************)
(* Market.get_rates_analysis.                                              *)
(***************************************************************************)
\* market_indicators['bonds'], in the order of the dict literal
Bonds ==
    << <<"13-Week Treasury", "^IRX">>, <<"5-Year Treasury", "^FVX">>,
       <<"10-Year Treasury", "^TNX">>, <<"30-Year Treasury", "^TYX">> >>

\* data['Close'].iloc[-5] if len(data) >= 5 else data['Close'].iloc[0]
WeekAgoRate(f) ==
    IF NRows(f) >= 5 THEN f.col["Close"][NRows(f) - 4] ELSE f.col["Close"][1]

\* current_rate - week_ago_rate on floats
Minus(a, b) ==
    IF IsFinite(a) /\ IsFinite(b) THEN Num(a.v - b.v) ELSE NaN

\* mutant: a rate equal to the comparison rate counts as rising
RatesRowRisingOnEqual(entry, f) ==
    LET current_rate == Last(f.col["Close"])
        week_ago_rate == WeekAgoRate(f)
        month_ago_rate == f.col["Close"][1]
    IN  [name |-> entry[1],
         symbol |-> entry[2],
         current_rate |-> current_rate,
         weekly_change |-> Minus(current_rate, week_ago_rate),
         monthly_change |-> Minus(current_rate, month_ago_rate),
         trend |-> IF ~Lt(current_rate, week_ago_rate) THEN "Rising" ELSE "Falling",
         rsi |-> Last(f.col["rsi"]),
         volatility |-> Last(f.col["volatility"])]

\* the dict appended to rates_data for one bond
RatesRow(entry, f) ==
    LET current_rate == Last(f.col["Close"])
        week_ago_rate == WeekAgoRate(f)
        month_ago_rate == f.col["Close"][1]
    IN  [name |-> entry[1],
         symbol |-> entry[2],
         current_rate |-> current_rate,
         weekly_change |-> Minus(current_rate, week_ago_rate),
         monthly_change |-> Minus(current_rate, month_ago_rate),
         trend |-> IF Gt(current_rate, week_ago_rate) THEN "Rising" ELSE "Falling",
         rsi |-> Last(f.col["rsi"]),
         volatility |-> Last(f.col["volatility"])]

\* pd.DataFrame(rows).set_index('name').sort_values('current_rate',
\* ascending=False): the rows by descending rate, rows of equal rate as one group
SortedByRate(rows) ==
    LET order == Descending({rows[i].current_rate : i \in 1..Len(rows)})
    IN  [g \in 1..Len(order) |->
            {rows[i] : i \in {j \in 1..Len(rows) : rows[j].current_rate = order[g]}}]

(***************************************************************************)
(* The trend classifier called on its own.                                 *)
(***************************************************************************)
PriceLevel(n) == Num(90 + 10 * n)
TrendInputs == {PriceLevel(n) : n \in 0..MaxLevel} \cup {NaN, PosInf, NegInf}

TrendIdle == trendArgs = <<>> /\ trendResult = "none"

IndIdle == frames = <<>> /\ results = <<>>
NotFetched == [fn |-> "none", error |-> "none", frame |-> NoFrame]
FetchIdle == upstream = [kind |-> "none", n |-> 0, seed |-> 0] /\ fetched = NotFetched
NoDict == [name \in {} |-> PyStr("")]
FundIdle == info = NoDict /\ fundamentals = [fn |-> "none", dict |-> NoDict]
AnalyzeIdle ==
    /\ pc = "idle" /\ failed = "none" /\ data_summary = NoSummary
    /\ events = <<>> /\ outcome = "none"
NotReturned == [status |-> "none", error |-> "none", rows |-> <<>>]
RatesIdle == rates_data = <<>> /\ rates = NotReturned
MarketIdle ==
    /\ feeds = <<>> /\ cursor = 0 /\ market_data = <<>> /\ trends = NotReturned
    /\ RatesIdle

InitTrend ==
    /\ trendArgs \in TrendInputs \X TrendInputs \X TrendInputs
    /\ trendResult = "none"
    /\ IndIdle /\ FetchIdle /\ FundIdle /\ AnalyzeIdle /\ MarketIdle

CallDetermineTrend ==
    /\ trendArgs # <<>>
    /\ trendResult = "none"
    /\ trendResult' = Market_determine_trend(trendArgs[1], trendArgs[2], trendArgs[3])
    /\ UNCHANGED <<trendArgs, indVars, fetchVars, fundVars, analyzeVars, marketVars>>

NextTrend == CallDetermineTrend

SpecTrend == InitTrend /\ [][NextTrend]_vars

(***************************************************************************)
(* The indicator computation called by a caller that owns one frame        *)
(* (object 1) and hands it to the computation, up to MaxCalls times.       *)
(***************************************************************************)
InitIndicators ==
    /\ \E bars \in BarSeriesSet : frames = <<FrameOf(bars)>>
    /\ results = <<>>
    /\ TrendIdle /\ FetchIdle /\ FundIdle /\ AnalyzeIdle /\ MarketIdle

\* what the caller sees of one call: the frame it passed before and after the
\* call, the error raised, the object returned and that object's value
CallRecord(fn, id, r) ==
    [fn |-> fn, arg |-> id, error |-> r.error, ret |-> r.ret,
     before |-> frames[id],
     after |-> r.frames[id],
     value |-> IF r.ret = 0 THEN NoFrame ELSE r.frames[r.ret]]

Finish(fn, id, r) ==
    /\ frames' = r.frames
    /\ results' = Append(results, CallRecord(fn, id, r))
    /\ UNCHANGED <<trendVars, fetchVars, fundVars, analyzeVars, marketVars>>

CallAssetDataProcessorIndicators ==
    /\ frames # <<>>
    /\ Len(results) < MaxCalls
    /\ Finish("AssetDataProcessor", 1, AssetDataProcessor_calculate_quant_indicators(frames, 1))

CallAssetIndicators ==
    /\ frames # <<>>
    /\ Len(results) < MaxCalls
    /\ Finish("Asset", 1, Asset_add_technical_indicators(frames, 1))

CallMainIndicators ==
    /\ frames # <<>>
    /\ Len(results) < MaxCalls
    /\ Finish("main", 1, main_calculate_quant_indicators(frames, 1))

NextIndicators ==
    \/ CallAssetDataProcessorIndicators
    \/ CallAssetIndicators
    \/ CallMainIndicators

SpecIndicators == InitIndicators /\ [][NextIndicators]_vars

(***************************************************************************)
(* The three market-data fetches, each called once on what yf.download     *)
(* gives.                                                                  *)
(***************************************************************************)
InitFetch ==
    /\ upstream \in Upstreams
    /\ fetched = NotFetched
    /\ TrendIdle /\ IndIdle /\ FundIdle /\ AnalyzeIdle /\ MarketIdle

Fetched(fn, r) ==
    /\ fetched = NotFetched
    /\ upstream.kind # "none"
    /\ fetched' = [fn |-> fn, error |-> r.error, frame |-> r.frame]
    /\ UNCHANGED <<upstream, trendVars, indVars, fundVars, analyzeVars, marketVars>>

CallAssetDataProcessorFetch ==
    Fetched("AssetDataProcessor", AssetDataProcessor_fetch_market_data(upstream))

CallAssetFetch == Fetched("Asset", Asset_get_market_data(upstream))

CallMainFetch == Fetched("main", main_fetch_market_data(upstream))

NextFetch ==
    \/ CallAssetDataProcessorFetch
    \/ CallAssetFetch
    \/ CallMainFetch

SpecFetch == InitFetch /\ [][NextFetch]_vars

(***************************************************************************)
(* The two fundamentals fetches, each called once on the info mapping the  *)
(* ticker has upstream: any subset of the keys, "sector" among them.       *)
(***************************************************************************)
InfoKeys == {FundamentalsFields[i][2] : i \in 1..Len(FundamentalsFields)} \cup {"sector"}
InfoValues == {PyNum(n) : n \in 1..MaxInfoValue}
InfoMappings == UNION {[D -> InfoValues] : D \in SUBSET InfoKeys}

InitFundamentals ==
    /\ info \in InfoMappings
    /\ fundamentals = [fn |-> "none", dict |-> NoDict]
    /\ TrendIdle /\ IndIdle /\ FetchIdle /\ AnalyzeIdle /\ MarketIdle

GotFundamentals(fn, d) ==
    /\ fundamentals.fn = "none"
    /\ fundamentals' = [fn |-> fn, dict |-> d]
    /\ UNCHANGED <<info, trendVars, indVars, fetchVars, analyzeVars, marketVars>>

CallFetchFundamentals ==
    GotFundamentals("FundamentalsFetcher", FundamentalsFetcher_fetch_fundamentals(info))

CallGetFundamentals == GotFundamentals("Asset", Asset_get_fundamentals(info))

NextFundamentals == CallFetchFundamentals \/ CallGetFundamentals

SpecFundamentals == InitFundamentals /\ [][NextFundamentals]_vars

(***************************************************************************)
(* main.analyze_stock, statement by statement, then its return to main().  *)
(* The agent's construction and the streamed LLM call each succeed or      *)
(* raise.                                                                  *)
(***************************************************************************)
InitAnalyze ==
    /\ upstream \in Upstreams
    /\ fetched = NotFetched
    /\ IndIdle
    /\ pc = "fetch" /\ failed = "none" /\ data_summary = NoSummary
    /\ events = <<>> /\ outcome = "none"
    /\ TrendIdle /\ FundIdle /\ MarketIdle

analyzeFrame == <<trendVars, fundVars, marketVars, upstream, results>>

\* df = fetch_market_data(asset, "1d", start_date, end_date)
AnalyzeFetch ==
    /\ pc = "fetch"
    /\ LET r == main_fetch_market_data(upstream)
       IN  /\ fetched' = [fn |-> "main", error |-> r.error, frame |-> r.frame]
           /\ events' = Append(events, "fetch")
           /\ IF r.error = "none"
              THEN frames' = <<r.frame>> /\ pc' = "indicators" /\ failed' = failed
              ELSE frames' = frames /\ pc' = "except" /\ failed' = "fetch"
    /\ UNCHANGED <<analyzeFrame, data_summary, outcome>>

\* df_with_indicators = calculate_quant_indicators(df)
AnalyzeIndicators ==
    /\ pc = "indicators"
    /\ LET r == main_calculate_quant_indicators(frames, 1)
       IN  /\ frames' = r.frames
           /\ events' = Append(events, "indicators")
           /\ IF r.error = "none"
              THEN pc' = "summary" /\ failed' = failed
              ELSE pc' = "except" /\ failed' = "indicators"
    /\ UNCHANGED <<analyzeFrame, fetched, data_summary, outcome>>

\* data_summary = {...}
AnalyzeSummary ==
    /\ pc = "summary"
    /\ data_summary' = DataSummary(frames[1])
    /\ pc' = "agent"
    /\ UNCHANGED <<analyzeFrame, frames, fetched, failed, events, outcome>>

\* analyst = AssistantAgent(..., model_client=OpenAIChatCompletionClient(...))
AnalyzeCreateAgent ==
    /\ pc = "agent"
    /\ \E ok \in BOOLEAN :
           IF ok THEN pc' = "run" /\ failed' = failed
           ELSE pc' = "except" /\ failed' = "agent"
    /\ UNCHANGED <<analyzeFrame, frames, fetched, data_summary, events, outcome>>

\* stream = analyst.run_stream(task=analysis_request); await Console(stream)
AnalyzeRun ==
    /\ pc = "run"
    /\ \E ok \in BOOLEAN :
           IF ok
           THEN /\ events' = events \o <<"submit", "print_analysis">>
                /\ pc' = "return" /\ failed' = failed
           ELSE /\ events' = Append(events, "submit")
                /\ pc' = "except" /\ failed' = "analyst"
    /\ UNCHANGED <<analyzeFrame, frames, fetched, data_summary, outcome>>

\* mutant: the try block closed after the two data steps, the analyst run
\* following the except clause
AnalyzeExceptThenRun ==
    /\ pc = "except"
    /\ events' = Append(events, "print_error")
    /\ pc' = IF failed \in {"fetch", "indicators"} THEN "run" ELSE "return"
    /\ UNCHANGED <<analyzeFrame, frames, fetched, failed, data_summary, outcome>>

\* except Exception as e: print(f"Error during analysis: {str(e)}")
AnalyzeExcept ==
    /\ pc = "except"
    /\ events' = Append(events, "print_error")
    /\ pc' = "return"
    /\ UNCHANGED <<analyzeFrame, frames, fetched, failed, data_summary, outcome>>

\* analyze_stock falls off its end: main()'s await gets None
AnalyzeReturn ==
    /\ pc = "return"
    /\ outcome' = "returned"
    /\ pc' = "done"
    /\ UNCHANGED <<analyzeFrame, frames, fetched, failed, data_summary, events>>

NextAnalyze ==
    \/ AnalyzeFetch
    \/ AnalyzeIndicators
    \/ AnalyzeSummary
    \/ AnalyzeCreateAgent
    \/ AnalyzeRun
    \/ AnalyzeExcept
    \/ AnalyzeReturn

SpecAnalyze == InitAnalyze /\ [][NextAnalyze]_vars

(***************************************************************************)
(* Market.get_market_trends: one loop iteration per symbol, then the       *)
(* DataFrame built from the rows.  The downloads of any subset of the      *)
(* symbols fail (raising and empty by turns); the others have n bars.      *)
(***************************************************************************)
MarketLengths == {AtrWindow - 1, AtrWindow, EmaShort, EmaLong, MaxLen}

FailingFeed(k) ==
    IF k % 2 = 1 THEN [kind |-> "raise", n |-> 0, seed |-> 0]
    ELSE [kind |-> "data", n |-> 0, seed |-> 0]

InitMarket ==
    /\ \E F \in SUBSET (1..Len(AllSymbols)), n \in MarketLengths :
           feeds = [k \in 1..Len(AllSymbols) |->
                       IF k \in F THEN FailingFeed(k)
                       ELSE [kind |-> "data", n |-> n,
                             seed |-> (k - 1) % (MaxSeed + 1)]]
    /\ cursor = 1
    /\ market_data = <<>>
    /\ trends = NotReturned
    /\ RatesIdle
    /\ TrendIdle /\ IndIdle /\ FetchIdle /\ FundIdle /\ AnalyzeIdle

marketFrame == <<trendVars, indVars, fetchVars, fundVars, analyzeVars, feeds, ratesVars>>

\* the body of the for loop: the row is appended, or the exception printed
MarketAnalyzeSymbol ==
    /\ cursor \in 1..Len(AllSymbols)
    /\ \E r \in {Asset_get_market_data_with_indicators(feeds[cursor])} :
           market_data' =
               IF r.error = "none" /\ NRows(r.frame) > 0
               THEN Append(market_data, MarketRow(AllSymbols[cursor], r.frame))
               ELSE market_data
    /\ cursor' = cursor + 1
    /\ UNCHANGED <<marketFrame, trends>>

\* df = pd.DataFrame(market_data); df.set_index('name', inplace=True);
\* df = df.sort_values(...); return df.  With no row the frame has no 'name'
\* column and set_index raises KeyError.
MarketReturn ==
    /\ cursor = Len(AllSymbols) + 1
    /\ trends = NotReturned
    /\ trends' =
           IF market_data = <<>>
           THEN [status |-> "raised", error |-> "KeyError", rows |-> <<>>]
           ELSE [status |-> "returned", error |-> "none",
                 rows |-> SortedByReturn(market_data)]
    /\ UNCHANGED <<marketFrame, cursor, market_data>>

NextMarket == MarketAnalyzeSymbol \/ MarketReturn

SpecMarket == InitMarket /\ [][NextMarket]_vars

(***************************************************************************)
(* Market.get_rates_analysis: one loop iteration per bond, then the        *)
(* DataFrame built from the rows.  The downloads of any subset of the      *)
(* bonds fail; the others have n bars.                                     *)
(***************************************************************************)
RatesLengths == {1, 4, 5, AtrWindow - 1, AtrWindow, AtrWindow + 1, EmaShort, MaxLen}

InitRates ==
    /\ \E F \in SUBSET (1..Len(Bonds)), n \in RatesLengths :
           feeds = [k \in 1..Len(Bonds) |->
                       IF k \in F THEN FailingFeed(k)
                       ELSE [kind |-> "data", n |-> n,
                             seed |-> (k - 1) % (MaxSeed + 1)]]
    /\ cursor = 1
    /\ RatesIdle
    /\ market_data = <<>> /\ trends = NotReturned
    /\ TrendIdle /\ IndIdle /\ FetchIdle /\ FundIdle /\ AnalyzeIdle

ratesFrame ==
    <<trendVars, indVars, fetchVars, fundVars, analyzeVars, feeds, market_data, trends>>

\* the body of the for loop: the row is appended, or the exception printed
RatesAnalyzeSymbol ==
    /\ cursor \in 1..Len(Bonds)
    /\ \E r \in {Asset_get_market_data_with_indicators(feeds[cursor])} :
           rates_data' =
               IF r.error = "none" /\ NRows(r.frame) > 0
               THEN Append(rates_data, RatesRow(Bonds[cursor], r.frame))
               ELSE rates_data
    /\ cursor' = cursor + 1
    /\ UNCHANGED <<ratesFrame, rates>>

\* df = pd.DataFrame(rates_data); df.set_index('name', inplace=True);
\* df = df.sort_values(...); return df.  With no row set_index raises KeyError.
RatesReturn ==
    /\ cursor = Len(Bonds) + 1
    /\ rates = NotReturned
    /\ rates' =
           IF rates_data = <<>>
           THEN [status |-> "raised", error |-> "KeyError", rows |-> <<>>]
           ELSE [status |-> "returned", error |-> "none",
                 rows |-> SortedByRate(rates_data)]
    /\ UNCHANGED <<ratesFrame, cursor, rates_data>>

NextRates == RatesAnalyzeSymbol \/ RatesReturn

SpecRates == InitRates /\ [][NextRates]_vars

(***************************************************************************)
(* Properties.                                                             *)
(***************************************************************************)
TrendCalled == trendResult # "none"
TrendArgsFinite == \A i \in 1..3 : IsFinite(trendArgs[i])

\* C1: on every finite (price, ema20, ema50) the classifier returns exactly one
\* of the four labels, the one the ordered rules give: Strong Uptrend iff
\* price > ema20 > ema50, Uptrend iff price > ema20 and ema20 <= ema50, Strong
\* Downtrend iff price < ema20 < ema50, Downtrend in every remaining case.
C1_TrendOrderedRules ==
    (TrendCalled /\ TrendArgsFinite) =>
        LET price == trendArgs[1].v
            ema20 == trendArgs[2].v
            ema50 == trendArgs[3].v
        IN  /\ trendResult \in TrendLabels
            /\ (trendResult = "Strong Uptrend") <=> (price > ema20 /\ ema20 > ema50)
            /\ (trendResult = "Uptrend") <=> (price > ema20 /\ ema20 <= ema50)
            /\ (trendResult = "Strong Downtrend") <=> (price < ema20 /\ ema20 < ema50)
            /\ (trendResult = "Downtrend") <=>
                   (~(price > ema20) /\ ~(price < ema20 /\ ema20 < ema50))

\* C1 witness: a finite triple on which the second rule decided
C1_Witness ==
    /\ TrendCalled
    /\ TrendArgsFinite
    /\ trendArgs[1].v > trendArgs[2].v
    /\ trendArgs[2].v = trendArgs[3].v
    /\ trendResult = "Uptrend"

\* C2: price == ema20 gives Downtrend whatever the finite ema50 is
C2_EqualityIsDowntrend ==
    (TrendCalled /\ TrendArgsFinite /\ trendArgs[1].v = trendArgs[2].v) =>
        trendResult = "Downtrend"

\* C2 witness: price=100, ema20=100, ema50=90 was classified Downtrend
C2_Witness ==
    /\ trendArgs = <<Num(100), Num(100), Num(90)>>
    /\ trendResult = "Downtrend"

Calls == {results[i] : i \in 1..Len(results)}
Succeeded(r) == r.error = "none"

C8_InputUntouched ==
    \A r \in Calls :
        Succeeded(r) => (r.after = r.before /\ r.ret # r.arg)

\* C8 as amended: the six bar columns of the caller's frame keep their place and
\* their values; a successful call has added the four indicator columns to that
\* same frame and returns that frame itself
C8_BarColumnsKeptIndicatorsAddedInPlace ==
    \A r \in Calls :
        /\ SubSeq(r.after.columns, 1, Len(BarColumns)) = BarColumns
        /\ \A c \in Range(BarColumns) : r.after.col[c] = r.before.col[c]
        /\ Succeeded(r) =>
               /\ r.ret = r.arg
               /\ r.value = r.after
               /\ r.after.columns = BarColumns \o IndicatorColumns

\* C8 witness: a successful call on a frame that had no indicator column yet
C8_Witness ==
    \E r \in Calls :
        /\ Succeeded(r)
        /\ r.before.columns = BarColumns
        /\ HasColumn(r.after, "rsi") /\ HasColumn(r.after, "volatility")
        /\ r.ret = r.arg

\* C10: a second call on the object the first call was given succeeds when the
\* first did and returns a frame equal to the one the first call returned: same
\* rows, same order, same rsi, ema_20, ema_50 and volatility
C10_SecondCallSameOutput ==
    \A i, j \in 1..Len(results) :
        (i < j /\ results[i].arg = results[j].arg /\ Succeeded(results[i])) =>
            /\ Succeeded(results[j])
            /\ results[j].value = results[i].value

\* C10 witness: two successful calls on a series long enough for every indicator
C10_Witness ==
    /\ Len(results) = 2
    /\ Succeeded(results[1]) /\ Succeeded(results[2])
    /\ NRows(results[2].value) >= EmaLong
    /\ IsFinite(results[2].value.col["ema_50"][EmaLong])

\* C5: a fetch of an empty upstream result fails with the no-data ValueError,
\* so a fetch that returns has at least one bar
C5_EmptyFetchFails ==
    fetched.fn # "none" =>
        /\ (upstream.kind = "data" /\ Len(Download(upstream)) = 0) =>
               (fetched.error = "ValueError" /\ fetched.frame = NoFrame)
        /\ fetched.error = "none" => NRows(fetched.frame) >= 1

\* C5 witness: a fetch has refused an empty upstream result
C5_Witness ==
    /\ upstream.kind = "data" /\ Len(Download(upstream)) = 0
    /\ fetched.fn # "none"
    /\ fetched.error = "ValueError"

EightMetrics ==
    {"Trailing P/E Ratio", "Forward P/E Ratio", "Market Cap", "Revenue",
     "Gross Profit", "Net Income", "EPS", "Dividend Yield"}

UpstreamKey(metric) ==
    CASE metric = "Trailing P/E Ratio" -> "trailingPE"
      [] metric = "Forward P/E Ratio" -> "forwardPE"
      [] metric = "Market Cap" -> "marketCap"
      [] metric = "Revenue" -> "totalRevenue"
      [] metric = "Gross Profit" -> "grossProfits"
      [] metric = "Net Income" -> "netIncomeToCommon"
      [] metric = "EPS" -> "trailingEps"
      [] metric = "Dividend Yield" -> "dividendYield"

\* C9: whatever the upstream info mapping holds, the snapshot has exactly the
\* eight metric names; a metric absent upstream is 'N/A', one present has its
\* upstream value
C9_EightMetricsAlways ==
    fundamentals.fn # "none" =>
        /\ DOMAIN fundamentals.dict = EightMetrics
        /\ \A m \in EightMetrics :
               IF UpstreamKey(m) \in DOMAIN info
               THEN fundamentals.dict[m] = info[UpstreamKey(m)]
               ELSE fundamentals.dict[m] = PyStr("N/A")

\* C9 witness: a snapshot of an empty info mapping
C9_Witness ==
    /\ fundamentals.fn # "none"
    /\ DOMAIN info = {}
    /\ fundamentals.dict["EPS"] = PyStr("N/A")

Rows == {market_data[i] : i \in 1..Len(market_data)}

\* C3: a row of get_market_trends whose price, ema20 or ema50 is not a finite
\* number carries no trend label: its classification has failed
C3_NonFiniteGetsNoLabel ==
    \A r \in Rows :
        ~(IsFinite(r.current_price) /\ IsFinite(r.ema_20) /\ IsFinite(r.ema_50)) =>
            r.trend \notin TrendLabels

\* C6: once the call of the analyst has failed, the run ends with a placeholder
\* summary substituted and the manager decision made
C6_AnalystFailureIsReplaced ==
    (pc = "done" /\ failed = "analyst") =>
        /\ \E i \in 1..Len(events) : events[i] = "placeholder_summary"
        /\ \E i \in 1..Len(events) : events[i] = "manager_decision"

\* C7: a run whose fetch or indicator computation failed ends by raising to its
\* caller, with no data summary built
C7_DataFailureIsRaised ==
    (pc = "done" /\ failed \in {"fetch", "indicators"}) =>
        (outcome = "raised" /\ data_summary = NoSummary)

EmaColumns == {<<"ema_20", EmaShort>>, <<"ema_50", EmaLong>>}
ClosesOf(f, from, to) == {f.col["Close"][j].v : j \in from..to}
Within(x, S) == (\E lo \in S : lo <= x) /\ (\E hi \in S : x <= hi)

\* C11 as stated: wherever ema_20 (ema_50) is defined, it lies between the lowest
\* and the highest of the last 20 (50) closes ending at that row
C11_EmaWithinWindowRange ==
    \A r \in Calls :
        Succeeded(r) =>
            \A w \in EmaColumns : \A i \in 1..NRows(r.value) :
                IsFinite(r.value.col[w[1]][i]) =>
                    Within(r.value.col[w[1]][i].v, ClosesOf(r.value, i - w[2] + 1, i))

\* C11 as amended: wherever ema_20 (ema_50) is defined, it lies between the
\* lowest and the highest of all the closes from the first row up to that row
C11_EmaWithinHistoryRange ==
    \A r \in Calls :
        Succeeded(r) =>
            \A w \in EmaColumns : \A i \in 1..NRows(r.value) :
                IsFinite(r.value.col[w[1]][i]) =>
                    Within(r.value.col[w[1]][i].v, ClosesOf(r.value, 1, i))

\* C11 witness: a successful call on a series whose ema_20 of the last row is
\* defined and stands above every one of the last 20 closes
C11_Witness ==
    \E r \in Calls :
        /\ Succeeded(r)
        /\ NRows(r.value) > EmaShort
        /\ IsFinite(Last(r.value.col["ema_20"]))
        /\ \A c \in ClosesOf(r.value, NRows(r.value) - EmaShort + 1, NRows(r.value)) :
               Last(r.value.col["ema_20"]).v > c

Submits == {i \in 1..Len(events) : events[i] = "submit"}

\* C12: in a run of analyze_stock the analyst is submitted to at most once, and
\* only as the third step, after the fetch and then the indicator computation
\* have both been made and have both succeeded; the indicator computation comes
\* only after a fetch that succeeded; a run whose fetch or indicator
\* computation failed never submits
C12_FetchIndicatorsSubmit ==
    /\ Cardinality(Submits) <= 1
    /\ \A i \in Submits :
           /\ i = 3
           /\ events[1] = "fetch" /\ events[2] = "indicators"
           /\ fetched.error = "none"
           /\ HasColumn(frames[1], "volatility")
    /\ \A i \in 1..Len(events) :
           events[i] = "indicators" =>
               (i = 2 /\ events[1] = "fetch" /\ fetched.error = "none")
    /\ \A i \in 1..Len(events) : events[i] = "fetch" => i = 1
    /\ failed \in {"fetch", "indicators"} => Submits = {}

\* C12 witness: a finished run that fetched, computed the indicators, submitted
\* to the analyst and printed the analysis
C12_Witness ==
    /\ pc = "done"
    /\ failed = "none"
    /\ events = <<"fetch", "indicators", "submit", "print_analysis">>

TrendRows == UNION {trends.rows[g] : g \in 1..Len(trends.rows)}
SymbolFails(k) == Asset_get_market_data_with_indicators(feeds[k]).error # "none"

\* C13: whichever symbols fail in their fetch or their indicator computation,
\* all eight included, get_market_trends returns, with exactly one row for each
\* symbol that succeeded and none for a symbol that failed
C13_FailuresAreIsolated ==
    trends.status # "none" =>
        /\ trends.status = "returned"
        /\ \A k \in 1..Len(AllSymbols) :
               Cardinality({r \in TrendRows : r.name = AllSymbols[k][1]}) =
                   IF SymbolFails(k) THEN 0 ELSE 1

FiniteRow(r) == IsFinite(r.current_price) /\ IsFinite(r.ema_20) /\ IsFinite(r.ema_50)

\* C14: in every row of get_market_trends with finite price and EMAs the label is
\* 'Strong Uptrend' or 'Uptrend' exactly when above_20_ema is true, which is
\* exactly when current_price > ema_20; 'Strong Downtrend' has above_20_ema and
\* above_50_ema both false
C14_LabelAgreesWithFlags ==
    \A r \in Rows :
        FiniteRow(r) =>
            /\ r.above_20_ema <=> (r.current_price.v > r.ema_20.v)
            /\ (r.trend \in {"Strong Uptrend", "Uptrend"}) <=> r.above_20_ema
            /\ r.trend = "Strong Downtrend" => (~r.above_20_ema /\ ~r.above_50_ema)

\* C14 witness: the rows hold a finite row above its 20-day EMA and below its
\* 50-day EMA, labelled Uptrend, and a finite row labelled Strong Downtrend
C14_Witness ==
    /\ \E r \in Rows :
           FiniteRow(r) /\ r.above_20_ema /\ ~r.above_50_ema /\ r.trend = "Uptrend"
    /\ \E r \in Rows : FiniteRow(r) /\ r.trend = "Strong Downtrend"

RateCloses(k) == [i \in 1..feeds[k].n |-> Download(feeds[k])[i].Close.v]
ComparisonRate(q) == IF Len(q) >= 5 THEN q[Len(q) - 4] ELSE q[1]
RateRowsOf(k) == {i \in 1..Len(rates_data) : rates_data[i].name = Bonds[k][1]}
RateRowMatches(r, q, week_ago) ==
    /\ r.current_rate = Num(Last(q))
    /\ r.weekly_change = Num(Last(q) - week_ago)
    /\ r.trend = IF Last(q) > week_ago THEN "Rising" ELSE "Falling"

====
